---- MODULE Spec2Model ----
(***************************************************************************)
(* Type-expression parsing, serialization and interning of                 *)
(* LotusIR::Utils::OpUtils and the StringRange scanner                     *)
(* (src/core/graph/utils.cc).                                              *)
(*                                                                         *)
(* Text is modelled byte by byte: a std::string is a sequence of           *)
(* one-character strings.  A TypeProto is a record whose value_case field  *)
(* names the protobuf oneof case that is set.                              *)
(***************************************************************************)
EXTENDS Integers, Sequences, FiniteSets

(***************************************************************************)
(* size_t.  The model keeps size_t 20 bits wide: NPOS is the all-ones      *)
(* value std::string::npos, arithmetic on sizes and pointers wraps modulo  *)
(* NPOS + 1, and a std::string longer than StringMaxSize cannot be built.  *)
(***************************************************************************)
NPOS == 1048575

SizeT(n) == n % (NPOS + 1)

StringMaxSize == NPOS \div 2

(***************************************************************************)
(* Characters.                                                             *)
(***************************************************************************)
NUL == "NUL"

OutOfBuffer == "OUT_OF_BUFFER"

\* isspace() in the "C" locale (the vertical tab has no TLA+ escape and is
\* left out of the alphabet).
IsSpace(c) == c \in {" ", "\t", "\n", "\r", "\f"}

\* The byte at 0-based offset i of a std::string's buffer: its characters,
\* then the terminating NUL.
At(buf, i) ==
    IF i < Len(buf) THEN buf[i + 1]
    ELSE IF i = Len(buf) THEN NUL
    ELSE OutOfBuffer

\* Bytes [from, from + n) of buf as a std::string value.
Bytes(buf, from, n) == [i \in 1..n |-> At(buf, from + i - 1)]

(***************************************************************************)
(* StringRange: a window [m_data, m_data + m_size) over a buffer, with the *)
(* capture marks m_start and m_end.  Pointers are 0-based offsets into     *)
(* buf.  A method that mutates the range and returns bool is an operator   *)
(* giving [ok |-> the bool, r |-> the range afterwards].                   *)
(***************************************************************************)
Range(buf, data, size) ==
    [buf |-> buf, m_data |-> data, m_size |-> size, m_start |-> data, m_end |-> data]

Data(r) == r.m_data

Size(r) == r.m_size

Empty(r) == r.m_size = 0

\* memcmp(m_data + off, lit, Len(lit)) == 0
MemEq(r, off, lit) ==
    \A i \in 1..Len(lit) : At(r.buf, SizeT(r.m_data + off + i - 1)) = lit[i]

StartsWith(r, lit) == r.m_size >= Len(lit) /\ MemEq(r, 0, lit)

EndsWith(r, lit) == r.m_size >= Len(lit) /\ MemEq(r, r.m_size - Len(lit), lit)

\* LStrip(size_t) without the test p_size <= m_size.
LStripNUnchecked(r, p_size) ==
    [ok |-> TRUE,
     r  |-> [r EXCEPT !.m_data = SizeT(@ + p_size),
                      !.m_size = SizeT(@ + (NPOS + 1) - p_size),
                      !.m_end  = SizeT(@ + p_size)]]

LStripN(r, p_size) ==
    IF p_size <= r.m_size
    THEN [ok |-> TRUE,
          r  |-> [r EXCEPT !.m_data = SizeT(@ + p_size),
                           !.m_size = @ - p_size,
                           !.m_end  = SizeT(@ + p_size)]]
    ELSE [ok |-> FALSE, r |-> r]

LStripLit(r, lit) ==
    IF StartsWith(r, lit) THEN LStripN(r, Len(lit)) ELSE [ok |-> FALSE, r |-> r]

RECURSIVE LeadingSpace(_, _)
LeadingSpace(r, count) ==
    IF count < r.m_size /\ IsSpace(At(r.buf, SizeT(r.m_data + count)))
    THEN LeadingSpace(r, count + 1)
    ELSE count

LStrip(r) ==
    LET count == LeadingSpace(r, 0)
    IN  IF count > 0 THEN LStripN(r, count) ELSE [ok |-> FALSE, r |-> r]

RStripN(r, p_size) ==
    IF r.m_size >= p_size
    THEN [ok |-> TRUE, r |-> [r EXCEPT !.m_size = @ - p_size]]
    ELSE [ok |-> FALSE, r |-> r]

RStripLit(r, lit) ==
    IF EndsWith(r, lit) THEN RStripN(r, Len(lit)) ELSE [ok |-> FALSE, r |-> r]

RECURSIVE TrailingSpace(_, _)
TrailingSpace(r, count) ==
    IF count < r.m_size
       /\ IsSpace(At(r.buf, SizeT(r.m_data + r.m_size + (NPOS + 1) - 1 - count)))
    THEN TrailingSpace(r, count + 1)
    ELSE count

RStrip(r) ==
    LET count == TrailingSpace(r, 0)
    IN  IF count > 0 THEN RStripN(r, count) ELSE [ok |-> FALSE, r |-> r]

LAndRStrip(r) ==
    LET l == LStrip(r)
        rr == RStrip(l.r)
    IN  [ok |-> l.ok \/ rr.ok, r |-> rr.r]

\* ParensWhitespaceStrip without the RStrip() that follows RStrip(")").
ParensStripNoRetrim(r) ==
    LET r1 == LStrip(r).r
        r2 == LStripLit(r1, <<"(">>).r
        r3 == LAndRStrip(r2).r
    IN  RStripLit(r3, <<")">>).r

ParensWhitespaceStrip(r) ==
    LET r1 == LStrip(r).r
        r2 == LStripLit(r1, <<"(">>).r
        r3 == LAndRStrip(r2).r
        r4 == RStripLit(r3, <<")">>).r
    IN  RStrip(r4).r

RECURSIVE FindFrom(_, _, _)
FindFrom(r, p_ch, idx) ==
    IF idx < r.m_size
    THEN IF At(r.buf, SizeT(r.m_data + idx)) = p_ch THEN idx ELSE FindFrom(r, p_ch, idx + 1)
    ELSE NPOS

\* The index of the last occurrence instead of the first.
FindLast(r, p_ch) ==
    LET hits == {idx \in 0..(r.m_size - 1) : At(r.buf, SizeT(r.m_data + idx)) = p_ch}
    IN  IF hits = {} THEN NPOS ELSE CHOOSE idx \in hits : \A other \in hits : other <= idx

Find(r, p_ch) == FindFrom(r, p_ch, 0)

RestartCapture(r) == [r EXCEPT !.m_start = r.m_data, !.m_end = r.m_data]

\* The constructor without its LAndRStrip() call.
StringRangeUntrimmed(buf, p_data, p_size) == Range(buf, p_data, p_size)

\* StringRange(const char*, size_t): the window, then LAndRStrip().
StringRange(buf, p_data, p_size) == LAndRStrip(Range(buf, p_data, p_size)).r

\* Reset(const std::string&): the range over the whole string, untrimmed.
Reset(str) == Range(str, 0, Len(str))

\* StringRange(const std::string&)
StringRangeOf(str) == StringRange(str, 0, Len(str))

GetCaptured(r) == StringRange(r.buf, r.m_start, SizeT(r.m_end + (NPOS + 1) - r.m_start))

\* std::string(p, n): the copy, or std::length_error when n exceeds max_size().
StdString(r) ==
    IF r.m_size > StringMaxSize
    THEN [ok |-> FALSE, err |-> "length_error", str |-> <<>>]
    ELSE [ok |-> TRUE, err |-> "none", str |-> Bytes(r.buf, r.m_data, r.m_size)]

(***************************************************************************)
(* TensorProto::DataType and the TypesWrapper name constants.  The values  *)
(* of the constants live in core/graph/constants.h, outside the sources at *)
(* hand; they are the canonical lowercase names of the kinds.              *)
(***************************************************************************)
UNDEFINED == "UNDEFINED"

DataTypes ==
    {"BOOL", "STRING", "FLOAT16", "FLOAT", "DOUBLE", "INT8", "INT16", "INT32", "INT64",
     "UINT8", "UINT16", "UINT32", "UINT64", "COMPLEX64", "COMPLEX128"}

c_bool == <<"b", "o", "o", "l">>

c_string == <<"s", "t", "r", "i", "n", "g">>
c_float16 == <<"f", "l", "o", "a", "t", "1", "6">>

c_float == <<"f", "l", "o", "a", "t">>
c_double == <<"d", "o", "u", "b", "l", "e">>

c_int8 == <<"i", "n", "t", "8">>
c_int16 == <<"i", "n", "t", "1", "6">>

c_int32 == <<"i", "n", "t", "3", "2">>
c_int64 == <<"i", "n", "t", "6", "4">>

c_uint8 == <<"u", "i", "n", "t", "8">>
c_uint16 == <<"u", "i", "n", "t", "1", "6">>

c_uint32 == <<"u", "i", "n", "t", "3", "2">>
c_uint64 == <<"u", "i", "n", "t", "6", "4">>

c_complex64 == <<"c", "o", "m", "p", "l", "e", "x", "6", "4">>
c_complex128 == <<"c", "o", "m", "p", "l", "e", "x", "1", "2", "8">>

\* TypesWrapper::GetAllowedDataTypes()
GetAllowedDataTypes ==
    {c_float16, c_float, c_double, c_int8, c_int16, c_int32, c_int64,
     c_uint8, c_uint16, c_uint32, c_uint64, c_complex64, c_complex128,
     c_string, c_bool}

IsValidDataTypeString(p_dataType) == p_dataType \in GetAllowedDataTypes

\* ToString(const TensorProto::DataType&): the switch, then the throw.
ToStringDataType(p_type) ==
    CASE p_type = "BOOL" -> [ok |-> TRUE, err |-> "none", str |-> c_bool]
      [] p_type = "STRING" -> [ok |-> TRUE, err |-> "none", str |-> c_string]
      [] p_type = "FLOAT16" -> [ok |-> TRUE, err |-> "none", str |-> c_float16]
      [] p_type = "FLOAT" -> [ok |-> TRUE, err |-> "none", str |-> c_float]
      [] p_type = "DOUBLE" -> [ok |-> TRUE, err |-> "none", str |-> c_double]
      [] p_type = "INT8" -> [ok |-> TRUE, err |-> "none", str |-> c_int8]
      [] p_type = "INT16" -> [ok |-> TRUE, err |-> "none", str |-> c_int16]
      [] p_type = "INT32" -> [ok |-> TRUE, err |-> "none", str |-> c_int32]
      [] p_type = "INT64" -> [ok |-> TRUE, err |-> "none", str |-> c_int64]
      [] p_type = "UINT8" -> [ok |-> TRUE, err |-> "none", str |-> c_uint8]
      [] p_type = "UINT16" -> [ok |-> TRUE, err |-> "none", str |-> c_uint16]
      [] p_type = "UINT32" -> [ok |-> TRUE, err |-> "none", str |-> c_uint32]
      [] p_type = "UINT64" -> [ok |-> TRUE, err |-> "none", str |-> c_uint64]
      [] p_type = "COMPLEX64" -> [ok |-> TRUE, err |-> "none", str |-> c_complex64]
      [] p_type = "COMPLEX128" -> [ok |-> TRUE, err |-> "none", str |-> c_complex128]
      [] OTHER -> [ok |-> FALSE, err |-> "invalid_argument", str |-> <<>>]

\* The chain with the float16 branch assigning FLOAT, as a copied branch would.
DataTypeOfNameCopied(p_typeStr) ==
    IF p_typeStr = c_bool THEN "BOOL"
    ELSE IF p_typeStr = c_float THEN "FLOAT"
    ELSE IF p_typeStr = c_float16 THEN "FLOAT"
    ELSE IF p_typeStr = c_double THEN "DOUBLE"
    ELSE IF p_typeStr = c_int8 THEN "INT8"
    ELSE IF p_typeStr = c_int16 THEN "INT16"
    ELSE IF p_typeStr = c_int32 THEN "INT32"
    ELSE IF p_typeStr = c_int64 THEN "INT64"
    ELSE IF p_typeStr = c_string THEN "STRING"
    ELSE IF p_typeStr = c_uint8 THEN "UINT8"
    ELSE IF p_typeStr = c_uint16 THEN "UINT16"
    ELSE IF p_typeStr = c_uint32 THEN "UINT32"
    ELSE IF p_typeStr = c_uint64 THEN "UINT64"
    ELSE IF p_typeStr = c_complex64 THEN "COMPLEX64"
    ELSE IF p_typeStr = c_complex128 THEN "COMPLEX128"
    ELSE UNDEFINED

\* The if/else chain of FromString(const std::string&, TensorProto::DataType&),
\* in the order of the code.
DataTypeOfName(p_typeStr) ==
    IF p_typeStr = c_bool THEN "BOOL"
    ELSE IF p_typeStr = c_float THEN "FLOAT"
    ELSE IF p_typeStr = c_float16 THEN "FLOAT16"
    ELSE IF p_typeStr = c_double THEN "DOUBLE"
    ELSE IF p_typeStr = c_int8 THEN "INT8"
    ELSE IF p_typeStr = c_int16 THEN "INT16"
    ELSE IF p_typeStr = c_int32 THEN "INT32"
    ELSE IF p_typeStr = c_int64 THEN "INT64"
    ELSE IF p_typeStr = c_string THEN "STRING"
    ELSE IF p_typeStr = c_uint8 THEN "UINT8"
    ELSE IF p_typeStr = c_uint16 THEN "UINT16"
    ELSE IF p_typeStr = c_uint32 THEN "UINT32"
    ELSE IF p_typeStr = c_uint64 THEN "UINT64"
    ELSE IF p_typeStr = c_complex64 THEN "COMPLEX64"
    ELSE IF p_typeStr = c_complex128 THEN "COMPLEX128"
    ELSE UNDEFINED

\* FromStringDataType without the IsValidDataTypeString check: an unknown name
\* falls through the chain to UNDEFINED.
FromStringDataTypeUnchecked(p_typeStr) ==
    [ok |-> TRUE, err |-> "none", type |-> DataTypeOfName(p_typeStr)]

\* FromString(const std::string&, TensorProto::DataType&): the membership
\* check and its throw, then the chain.
FromStringDataType(p_typeStr) ==
    IF ~IsValidDataTypeString(p_typeStr)
    THEN [ok |-> FALSE, err |-> "invalid_argument", type |-> UNDEFINED]
    ELSE [ok |-> TRUE, err |-> "none", type |-> DataTypeOfName(p_typeStr)]

(***************************************************************************)
(* TypeProto: value_case names the oneof case that is set; each case keeps *)
(* its own field names.  ValueInfoProto is a (name, type) pair.            *)
(***************************************************************************)
NotSet == [value_case |-> "VALUE_NOT_SET"]

TensorType(e) == [value_case |-> "kTensorType", tensor_elem_type |-> e]

SparseTensorType(e) == [value_case |-> "kSparseTensorType", sparse_elem_type |-> e]

SeqType(t) == [value_case |-> "kSeqType", seq_elem_type |-> t]

MapType(k, v) == [value_case |-> "kMapType", key_type |-> k, value_type |-> v]

RecordType(fs) == [value_case |-> "kRecordType", field |-> fs]

UnionType(cs) == [value_case |-> "kUnionType", choice |-> cs]

ValueInfo(n, t) == [name |-> n, type |-> t]

Ok(str) == [ok |-> TRUE, err |-> "none", str |-> str]

(***************************************************************************)
(* ToString(const TypeProto&).  A result is [ok, err, str]: the string, or *)
(* the exception that left the call.                                       *)
(***************************************************************************)
RECURSIVE ToString(_)

\* The element's string alone: the "seq(" ... ")" wrapping forgotten.
SeqStringBare(elem) == elem

\* "seq(" + ToString(elem_type) + ")"
SeqString(elem) == <<"s", "e", "q", "(">> \o elem \o <<")">>

\* The key and the value joined by ", " instead of ",".
MapStringSpaced(key, value) ==
    <<"m", "a", "p", "(">> \o key \o <<",", " ">> \o value \o <<")">>

\* "map(" + ToString(key_type) + "," + ToString(value_type) + ")"
MapString(key, value) == <<"m", "a", "p", "(">> \o key \o <<",">> \o value \o <<")">>

\* The entries emitted from the last to the first.
RECURSIVE EntriesToStringReversed(_, _, _)
EntriesToStringReversed(entries, i, acc) ==
    LET e == entries[Len(entries) - i + 1]
        child == ToString(e.type)
    IN  IF ~child.ok THEN child
        ELSE IF i < Len(entries)
        THEN EntriesToStringReversed(entries, i + 1,
                 acc \o e.name \o <<":">> \o child.str \o <<",">>)
        ELSE Ok(acc \o e.name \o <<":">> \o child.str \o <<")">>)

\* The loop over entries 1 .. size-1 and the statement for the last entry:
\* acc is record_str / union_str so far, i the entry being appended.
RECURSIVE EntriesToString(_, _, _)
EntriesToString(entries, i, acc) ==
    LET child == ToString(entries[i].type)
    IN  IF ~child.ok THEN child
        ELSE IF i < Len(entries)
        THEN EntriesToString(entries, i + 1,
                 acc \o entries[i].name \o <<":">> \o child.str \o <<",">>)
        ELSE Ok(acc \o entries[i].name \o <<":">> \o child.str \o <<")">>)

ToString(p_type) ==
    CASE p_type.value_case = "kTensorType" ->
            ToStringDataType(p_type.tensor_elem_type)
      [] p_type.value_case = "kSparseTensorType" ->
            LET e == ToStringDataType(p_type.sparse_elem_type)
            IN  IF e.ok THEN Ok(<<"s", "p", "a", "r", "s", "e", "(">> \o e.str \o <<")">>) ELSE e
      [] p_type.value_case = "kSeqType" ->
            LET e == ToString(p_type.seq_elem_type)
            IN  IF e.ok THEN Ok(SeqString(e.str)) ELSE e
      [] p_type.value_case = "kMapType" ->
            LET k == ToStringDataType(p_type.key_type)
                v == ToString(p_type.value_type)
            IN  IF ~k.ok THEN k
                ELSE IF ~v.ok THEN v
                ELSE Ok(MapString(k.str, v.str))
      [] p_type.value_case = "kRecordType" ->
            EntriesToString(p_type.field, 1, <<"r", "e", "c", "o", "r", "d", "(">>)
      [] p_type.value_case = "kUnionType" ->
            EntriesToString(p_type.choice, 1, <<"u", "n", "i", "o", "n", "(">>)
      [] OTHER -> [ok |-> FALSE, err |-> "invalid_argument", str |-> <<>>]

(***************************************************************************)
(* SplitRecords: the while loop, then the final push_back.                 *)
(***************************************************************************)
\* The body of the while loop, run once: the locals as it leaves them.
SplitBody(p_src, parens, p_records) ==
    IF StartsWith(p_src, <<",">>)
    THEN IF parens = 0
         THEN [p_src     |-> RestartCapture(LStripLit(p_src, <<",">>).r),
               parens    |-> parens,
               p_records |-> Append(p_records, GetCaptured(p_src))]
         ELSE [p_src     |-> LStripLit(p_src, <<",">>).r,
               parens    |-> parens,
               p_records |-> p_records]
    ELSE IF LStripLit(p_src, <<"(">>).ok
    THEN [p_src |-> LStripLit(p_src, <<"(">>).r, parens |-> parens + 1, p_records |-> p_records]
    ELSE IF LStripLit(p_src, <<")">>).ok
    THEN [p_src |-> LStripLit(p_src, <<")">>).r, parens |-> parens - 1, p_records |-> p_records]
    ELSE [p_src |-> LStripN(p_src, 1).r, parens |-> parens, p_records |-> p_records]

\* SplitLoop without the depth test: every comma ends a record.
RECURSIVE SplitAtEveryComma(_, _, _)
SplitAtEveryComma(p_src, parens, p_records) ==
    IF p_src.m_size > 0
    THEN IF StartsWith(p_src, <<",">>)
         THEN SplitAtEveryComma(RestartCapture(LStripLit(p_src, <<",">>).r), parens,
                                Append(p_records, GetCaptured(p_src)))
         ELSE SplitAtEveryComma(LStripN(p_src, 1).r, parens, p_records)
    ELSE Append(p_records, GetCaptured(p_src))

\* SplitLoop without the branch for ")": parens is never decremented.
RECURSIVE SplitLoopNoClose(_, _, _)
SplitLoopNoClose(p_src, parens, p_records) ==
    IF p_src.m_size > 0
    THEN IF StartsWith(p_src, <<",">>)
         THEN IF parens = 0
              THEN SplitLoopNoClose(RestartCapture(LStripLit(p_src, <<",">>).r), parens,
                                    Append(p_records, GetCaptured(p_src)))
              ELSE SplitLoopNoClose(LStripLit(p_src, <<",">>).r, parens, p_records)
         ELSE IF LStripLit(p_src, <<"(">>).ok
         THEN SplitLoopNoClose(LStripLit(p_src, <<"(">>).r, parens + 1, p_records)
         ELSE SplitLoopNoClose(LStripN(p_src, 1).r, parens, p_records)
    ELSE Append(p_records, GetCaptured(p_src))

RECURSIVE SplitLoop(_, _, _)
SplitLoop(p_src, parens, p_records) ==
    IF p_src.m_size > 0
    THEN IF StartsWith(p_src, <<",">>)
         THEN IF parens = 0
              THEN SplitLoop(RestartCapture(LStripLit(p_src, <<",">>).r), parens,
                             Append(p_records, GetCaptured(p_src)))
              ELSE SplitLoop(LStripLit(p_src, <<",">>).r, parens, p_records)
         ELSE IF LStripLit(p_src, <<"(">>).ok
         THEN SplitLoop(LStripLit(p_src, <<"(">>).r, parens + 1, p_records)
         ELSE IF LStripLit(p_src, <<")">>).ok
         THEN SplitLoop(LStripLit(p_src, <<")">>).r, parens - 1, p_records)
         ELSE SplitLoop(LStripN(p_src, 1).r, parens, p_records)
    ELSE Append(p_records, GetCaptured(p_src))

\* SplitRecords returning at once, with nothing pushed, on an empty range.
SplitRecordsSkipEmpty(p_src) ==
    IF p_src.m_size = 0 THEN <<>> ELSE SplitLoop(RestartCapture(p_src), 0, <<>>)

SplitRecords(p_src) == SplitLoop(RestartCapture(p_src), 0, <<>>)

(***************************************************************************)
(* FromString(const std::string&, TypeProto&).  A result is                *)
(* [ok, err, type]: type is p_type as the call leaves it, on return or at  *)
(* the throw.                                                              *)
(***************************************************************************)
RECURSIVE FromString(_)

\* The for loop of the record and union branches over fields[i ..]; done
\* holds the ValueInfoProtos added so far.  The result's list is the
\* repeated field as the loop leaves it.
RECURSIVE ParseEntries(_, _, _)
ParseEntries(fields, i, done) ==
    IF i > Len(fields) THEN [ok |-> TRUE, err |-> "none", list |-> done]
    ELSE LET f == fields[i]
             name_size == Find(f, ":")
             n == StringRange(f.buf, f.m_data, name_size)
             name == StdString(n)
             f1 == LStripN(f, name_size).r
             f2 == LStripLit(f1, <<":">>).r
             child == FromString(StdString(f2).str)
             added == Append(done, ValueInfo(name.str, child.type))
         IN  IF ~name.ok
             THEN [ok |-> FALSE, err |-> name.err,
                   list |-> Append(done, ValueInfo(<<>>, NotSet))]
             ELSE IF ~child.ok
             THEN [ok |-> FALSE, err |-> child.err, list |-> added]
             ELSE ParseEntries(fields, i + 1, added)

FromString(p_src) ==
    LET s == StringRangeOf(p_src)
        seq == LStripLit(s, <<"s", "e", "q">>)
        map == LStripLit(s, <<"m", "a", "p">>)
        record == LStripLit(s, <<"r", "e", "c", "o", "r", "d">>)
        union == LStripLit(s, <<"u", "n", "i", "o", "n">>)
        sparse == LStripLit(s, <<"s", "p", "a", "r", "s", "e">>)
    IN  IF seq.ok
        THEN LET p == ParensWhitespaceStrip(seq.r)
                 child == FromString(StdString(p).str)
             IN  [ok |-> child.ok, err |-> child.err, type |-> SeqType(child.type)]
        ELSE IF map.ok
        THEN LET p == ParensWhitespaceStrip(map.r)
                 key_size == Find(p, ",")
                 k == StringRange(p.buf, p.m_data, key_size)
                 key == StdString(k)
                 p1 == LStripN(p, key_size).r
                 p2 == LStripLit(p1, <<",">>).r
                 v == StringRange(p2.buf, p2.m_data, p2.m_size)
                 key_type == FromStringDataType(key.str)
                 child == FromString(StdString(v).str)
             IN  IF ~key.ok THEN [ok |-> FALSE, err |-> key.err, type |-> NotSet]
                 ELSE IF ~key_type.ok
                 THEN [ok |-> FALSE, err |-> key_type.err, type |-> NotSet]
                 ELSE [ok |-> child.ok, err |-> child.err,
                       type |-> MapType(key_type.type, child.type)]
        ELSE IF record.ok
        THEN LET p == ParensWhitespaceStrip(record.r)
                 fields == SplitRecords(p)
                 es == ParseEntries(fields, 1, <<>>)
             IN  [ok |-> es.ok, err |-> es.err, type |-> RecordType(es.list)]
        ELSE IF union.ok
        THEN LET p == ParensWhitespaceStrip(union.r)
                 choices == SplitRecords(p)
                 es == ParseEntries(choices, 1, <<>>)
             IN  [ok |-> es.ok, err |-> es.err, type |-> UnionType(es.list)]
        ELSE IF sparse.ok
        THEN LET p == ParensWhitespaceStrip(sparse.r)
                 e == FromStringDataType(StdString(p).str)
             IN  IF e.ok THEN [ok |-> TRUE, err |-> "none", type |-> SparseTensorType(e.type)]
                 ELSE [ok |-> FALSE, err |-> e.err, type |-> NotSet]
        ELSE LET e == FromStringDataType(StdString(s).str)
             IN  IF e.ok THEN [ok |-> TRUE, err |-> "none", type |-> TensorType(e.type)]
                 ELSE [ok |-> FALSE, err |-> e.err, type |-> NotSet]

\* The strings FromString passes to its recursive calls while it runs the
\* loop of the record and union branches over fields[i ..].
RECURSIVE EntryChildren(_, _)
EntryChildren(fields, i) ==
    IF i > Len(fields) THEN {}
    ELSE LET f == fields[i]
             name_size == Find(f, ":")
             name == StdString(StringRange(f.buf, f.m_data, name_size))
             f1 == LStripN(f, name_size).r
             f2 == LStripLit(f1, <<":">>).r
             text == StdString(f2).str
         IN  IF ~name.ok THEN {}
             ELSE {text} \cup (IF FromString(text).ok THEN EntryChildren(fields, i + 1) ELSE {})

\* The strings the call FromString(p_src, p_type) passes to the calls of
\* FromString(const std::string&, TypeProto&) it makes itself.
Children(p_src) ==
    LET s == StringRangeOf(p_src)
        seq == LStripLit(s, <<"s", "e", "q">>)
        map == LStripLit(s, <<"m", "a", "p">>)
        record == LStripLit(s, <<"r", "e", "c", "o", "r", "d">>)
        union == LStripLit(s, <<"u", "n", "i", "o", "n">>)
    IN  IF seq.ok THEN {StdString(ParensWhitespaceStrip(seq.r)).str}
        ELSE IF map.ok
        THEN LET p == ParensWhitespaceStrip(map.r)
                 key_size == Find(p, ",")
                 key == StdString(StringRange(p.buf, p.m_data, key_size))
                 p1 == LStripN(p, key_size).r
                 p2 == LStripLit(p1, <<",">>).r
                 v == StringRange(p2.buf, p2.m_data, p2.m_size)
             IN  IF key.ok /\ FromStringDataType(key.str).ok THEN {StdString(v).str} ELSE {}
        ELSE IF record.ok
        THEN EntryChildren(SplitRecords(ParensWhitespaceStrip(record.r)), 1)
        ELSE IF union.ok
        THEN EntryChildren(SplitRecords(ParensWhitespaceStrip(union.r)), 1)
        ELSE {}

\* The tag of the branch FromString takes for p_src when that branch calls
\* SplitRecords ("record" or "union"), or the empty string.
EntriesTag(p_src) ==
    LET s == StringRangeOf(p_src)
    IN  IF LStripLit(s, <<"s", "e", "q">>).ok \/ LStripLit(s, <<"m", "a", "p">>).ok
        THEN <<>>
        ELSE IF LStripLit(s, <<"r", "e", "c", "o", "r", "d">>).ok
        THEN <<"r", "e", "c", "o", "r", "d">>
        ELSE IF LStripLit(s, <<"u", "n", "i", "o", "n">>).ok
        THEN <<"u", "n", "i", "o", "n">>
        ELSE <<>>

\* "map" when FromString takes the map branch for p_src, or the empty
\* string.
KeyTag(p_src) ==
    LET s == StringRangeOf(p_src)
    IN  IF LStripLit(s, <<"s", "e", "q">>).ok THEN <<>>
        ELSE IF LStripLit(s, <<"m", "a", "p">>).ok THEN <<"m", "a", "p">>
        ELSE <<>>

\* s after s.LStrip(tag) and s.ParensWhitespaceStrip(): the window passed to
\* SplitRecords.
Payload(p_src, tag) == ParensWhitespaceStrip(LStripLit(StringRangeOf(p_src), tag).r)

\* One iteration of the loop of the record and union branches on the field
\* f ends without an exception.
EntryParses(f) ==
    LET name_size == Find(f, ":")
        name == StdString(StringRange(f.buf, f.m_data, name_size))
        f1 == LStripN(f, name_size).r
        f2 == LStripLit(f1, <<":">>).r
    IN  name.ok /\ FromString(StdString(f2).str).ok

\* The ranges the call FromString(p_src, p_type) searches with Find, each
\* with the character looked for: the payload of a map for ',', and each
\* field or choice the loop reaches (those before it parsed) for ':'.
FindCalls(p_src) ==
    IF KeyTag(p_src) # <<>>
    THEN {[r |-> Payload(p_src, KeyTag(p_src)), p_ch |-> ","]}
    ELSE IF EntriesTag(p_src) # <<>>
    THEN LET fields == SplitRecords(Payload(p_src, EntriesTag(p_src)))
         IN  {[r |-> fields[i], p_ch |-> ":"] :
                 i \in {j \in 1..Len(fields) :
                           \A h \in 1..(j - 1) : EntryParses(fields[h])}}
    ELSE {}

\* The characters of each StringRange of a std::vector<StringRange>.
CapturedTexts(p_records) ==
    [i \in 1..Len(p_records) |-> Bytes(p_records[i].buf, p_records[i].m_data, p_records[i].m_size)]

(***************************************************************************)
(* Inputs of the parser and the serializer.                                *)
(*                                                                         *)
(* Descriptors are built from the six TypeProto cases with at most         *)
(* MaxNodes nested TypeProto messages.  Nested leaves use NestedKinds and  *)
(* map keys KeyKinds; a descriptor that is a single tensor ranges over     *)
(* every DataType, UNDEFINED included.  Entry names range over Names:      *)
(* plain names, and names that hold a delimiter of the grammar or start    *)
(* with white space (a ValueInfoProto name is any string).                 *)
(***************************************************************************)
MaxNodes == 3

NestedKinds == {"FLOAT", "INT64"}

KeyKinds == {"STRING"}

PlainNames == {<<"a">>, <<"b">>}

Names == PlainNames \cup {<<"x", ":", "y">>, <<" ", "c">>}

Leaves(kinds) == {TensorType(k) : k \in kinds} \cup {SparseTensorType(k) : k \in kinds}

RECURSIVE TypesOfSize(_)

\* Non-empty sequences of ValueInfoProtos whose types hold n messages in all.
RECURSIVE EntryLists(_)
EntryLists(n) ==
    {<<ValueInfo(nm, t)>> : nm \in Names, t \in TypesOfSize(n)}
    \cup UNION {{<<ValueInfo(nm, t)>> \o rest :
                    nm \in Names, t \in TypesOfSize(m), rest \in EntryLists(n - m)}
                : m \in 1..(n - 1)}

TypesOfSize(n) ==
    IF n = 1 THEN Leaves(NestedKinds)
    ELSE {SeqType(t) : t \in TypesOfSize(n - 1)}
         \cup {MapType(k, t) : k \in KeyKinds, t \in TypesOfSize(n - 1)}
         \cup {RecordType(es) : es \in EntryLists(n - 1)}
         \cup {UnionType(es) : es \in EntryLists(n - 1)}

\* The descriptors of the nesting and depth-aware splitting examples.
ExampleTypes ==
    {SeqType(MapType("STRING", TensorType("INT64"))),
     RecordType(<<ValueInfo(<<"a">>, TensorType("FLOAT")),
                  ValueInfo(<<"b">>, MapType("STRING", TensorType("INT32")))>>),
     UnionType(<<ValueInfo(<<"a">>, MapType("STRING", SparseTensorType("BOOL"))),
                 ValueInfo(<<"b">>, RecordType(<<ValueInfo(<<"a">>, TensorType("FLOAT")),
                                                 ValueInfo(<<"b">>, TensorType("FLOAT"))>>))>>)}

InputTypes ==
    Leaves(DataTypes \cup {UNDEFINED}) \cup ExampleTypes
        \cup UNION {TypesOfSize(n) : n \in 1..MaxNodes}

\* Names that are not in the primitive table.
UnknownNames ==
    {<<"b", "o", "g", "u", "s">>,
     <<"t", "e", "n", "s", "o", "r", "(", "b", "o", "g", "u", "s", ")">>,
     <<"t", "e", "n", "s", "o", "r", "(", "f", "l", "o", "a", "t", ")">>,
     <<"F", "L", "O", "A", "T">>,
     <<"f", "l", "o", "a", "t", "3", "2">>,
     <<"i", "n", "t">>,
     <<"u", "n", "d", "e", "f", "i", "n", "e", "d">>,
     <<>>}

PrimitiveTexts == GetAllowedDataTypes \cup UnknownNames

\* Type expressions with the primitive name n in each position of the grammar.
TextsWith(n) ==
    {n,
     <<"s", "e", "q", "(">> \o n \o <<")">>,
     <<"s", "p", "a", "r", "s", "e", "(">> \o n \o <<")">>,
     <<"m", "a", "p", "(">> \o n \o <<",", "f", "l", "o", "a", "t", ")">>,
     <<"m", "a", "p", "(", "s", "t", "r", "i", "n", "g", ",">> \o n \o <<")">>,
     <<"r", "e", "c", "o", "r", "d", "(", "a", ":">> \o n \o <<")">>,
     <<"u", "n", "i", "o", "n", "(", "a", ":", "f", "l", "o", "a", "t", ",", "b", ":">>
         \o n \o <<")">>}

\* Nested type expressions, with and without a "tensor(...)" wrapping of
\* the dense tensors.
NestingTexts ==
    {<<"s", "e", "q", "(", "m", "a", "p", "(", "s", "t", "r", "i", "n", "g", ",", "i", "n", "t",
            "6", "4", ")", ")">>,
     <<"s", "e", "q", "(", "m", "a", "p", "(", "s", "t", "r", "i", "n", "g", ",", "t", "e", "n",
             "s", "o", "r", "(", "i", "n", "t", "6", "4", ")", ")", ")">>}

\* Record and union expressions: nested commas and colons, white space
\* around the entries, empty payloads and unbalanced parentheses.
SplitTexts ==
    {<<"r", "e", "c", "o", "r", "d", "(", "a", ":", "t", "e", "n", "s", "o", "r", "(", "f", "l",
            "o", "a", "t", ")", ",", "b", ":", "m", "a", "p", "(", "s", "t", "r", "i", "n", "g",
            ",", "t", "e", "n", "s", "o", "r", "(", "i", "n", "t", "3", "2", ")", ")", ")">>,
     <<"r", "e", "c", "o", "r", "d", "(", "a", ":", "f", "l", "o", "a", "t", ",", "b", ":", "m",
             "a", "p", "(", "s", "t", "r", "i", "n", "g", ",", "i", "n", "t", "3", "2", ")", ")">>,
     <<"u", "n", "i", "o", "n", "(", "a", ":", "m", "a", "p", "(", "s", "t", "r", "i", "n", "g",
             ",", "f", "l", "o", "a", "t", ")", ",", "b", ":", "s", "e", "q", "(", "f", "l", "o",
             "a", "t", ")", ",", "c", ":", "f", "l", "o", "a", "t", ")">>,
     <<"r", "e", "c", "o", "r", "d", "(", "a", ":", "r", "e", "c", "o", "r", "d", "(", "b", ":",
             "f", "l", "o", "a", "t", ",", "c", ":", "f", "l", "o", "a", "t", ")", ",", "d", ":",
             "f", "l", "o", "a", "t", ")">>,
     <<"u", "n", "i", "o", "n", "(", " ", "a", " ", ":", " ", "f", "l", "o", "a", "t", " ", ",",
             " ", "b", " ", ":", " ", "f", "l", "o", "a", "t", " ", ")">>,
     <<"r", "e", "c", "o", "r", "d", "(", "a", ":", "s", "e", "q", "(", "f", "l", "o", "a", "t",
             ",", "b", ":", "f", "l", "o", "a", "t", ")">>,
     <<"u", "n", "i", "o", "n", "(", "a", ":", "f", "l", "o", "a", "t", ")", ",", "b", ":", "f",
             "l", "o", "a", "t", ")">>,
     <<"r", "e", "c", "o", "r", "d", "(", ",", ")">>,
     <<"r", "e", "c", "o", "r", "d", "(", ")">>,
     <<"r", "e", "c", "o", "r", "d">>}

\* White space put around a whole expression, and directly inside the
\* parentheses of its productions.
OuterSpace == {<<>>, <<" ", " ">>}

InnerSpace == {<<>>, <<" ">>, <<"\t", "\n">>}

\* tag ( w payload w )
Wrap(tag, w, payload) == tag \o <<"(">> \o w \o payload \o w \o <<")">>

PaddedLeaves == {<<"f", "l", "o", "a", "t">>, <<"i", "n", "t", "6", "4">>, <<"b", "o", "g", "u",
        "s">>, <<"t", "e", "n", "s", "o", "r", "(", "f", "l", "o", "a", "t", ")">>, <<>>}

PaddedShapes == 1..11

\* The expression of shape i over the leaf n, with w inside its parentheses
\* and o around it.  Shapes 9 to 11 are outside the grammar: a tag without
\* parentheses, a missing ")" and a ")" too many.
PaddedText(i, n, o, w) ==
    o \o (CASE i = 1 -> n
            [] i = 2 -> Wrap(<<"s", "e", "q">>, w, n)
            [] i = 3 -> Wrap(<<"s", "e", "q">>, w, Wrap(<<"s", "e", "q">>, w, n))
            [] i = 4 -> Wrap(<<"s", "p", "a", "r", "s", "e">>, w, n)
            [] i = 5 -> Wrap(<<"m", "a", "p">>, w, <<"s", "t", "r", "i", "n", "g", ",">> \o n)
            [] i = 6 -> Wrap(<<"m", "a", "p">>, w, <<"s", "t", "r", "i", "n", "g",
                    ",">> \o Wrap(<<"s", "e", "q">>, w, n))
            [] i = 7 -> Wrap(<<"r", "e", "c", "o", "r", "d">>, w, <<"a", ":">> \o n \o <<",",
                    "b", ":">> \o Wrap(<<"m", "a", "p">>, w, <<"s", "t", "r", "i", "n", "g",
                    ",">> \o n))
            [] i = 8 -> Wrap(<<"u", "n", "i", "o", "n">>, w, <<"a", ":">> \o Wrap(<<"s", "e",
                    "q">>, w, n))
            [] i = 9 -> <<"s", "e", "q">> \o n
            [] i = 10 -> <<"s", "e", "q", "(">> \o w \o n
            [] i = 11 -> Wrap(<<"s", "e", "q">>, w, n) \o w \o <<")">>) \o o

PaddedTexts ==
    {PaddedText(i, n, o, w) : i \in PaddedShapes, n \in PaddedLeaves,
                              o \in OuterSpace, w \in InnerSpace}

\* Strings a range is reset to before ParensWhitespaceStrip.
WindowTexts ==
    {<<"(", " ", "(", "x", ")", " ", ")">>, <<"(", "(", "x", ")", ")">>, <<"(", "x",
            ")">>, <<"x">>, <<" ", "(", " ", "x", " ", ")", " ">>, <<"(", "x">>, <<"x",
            ")">>, <<>>, <<"(", ")">>, <<"(", " ", ")">>, <<")", "(">>,
     <<" ">>, <<"(">>, <<")">>, <<" ", " ", "(", "f", "l", "o", "a", "t", ")", " ", " ">>, <<"(",
             "a", "(", "b", ")", "c", ")">>, <<"(", "x", ")", " ", ")">>, <<"(", " ", "(", "x",
             ")">>, <<")", " ", "x", " ", "(">>,
     <<"\t", "(", "\n", " ", "x", " ", "y", "\n", ")", "\t">>}

\* Texts the grammar does not derive: a tag without a parenthesised payload,
\* a missing ")", a ")" without "(", a ")" too many, text after the payload,
\* a map without a value, a record without fields.
MalformedTexts ==
    {<<"s", "e", "q", "f", "l", "o", "a", "t">>, <<"s", "p", "a", "r", "s", "e", "f", "l", "o",
            "a", "t">>, <<"s", "e", "q", "(", "f", "l", "o", "a", "t">>, <<"s", "e", "q", "f",
            "l", "o", "a", "t", ")">>, <<"s", "e", "q", "(", "f", "l", "o", "a", "t", ")",
            ")">>, <<"s", "e", "q", "(", "f", "l", "o", "a", "t", ")", "x">>,
     <<"m", "a", "p", "(", "f", "l", "o", "a", "t", ")">>, <<"m", "a", "p", "s", "t", "r", "i",
             "n", "g", ",", "f", "l", "o", "a", "t">>, <<"r", "e", "c", "o", "r", "d", "(", "a",
             ":", "f", "l", "o", "a", "t">>, <<"r", "e", "c", "o", "r", "d", "a", ":", "f", "l",
             "o", "a", "t">>, <<"r", "e", "c", "o", "r", "d", "(", ")">>,
     <<"r", "e", "c", "o", "r", "d">>, <<"u", "n", "i", "o", "n", "(", "a", ")">>}

\* Ranges a strip is called on: the range reset to str, and what
\* ParensWhitespaceStrip leaves of it (a window inside the buffer).
StripWindows(str) == {Reset(str), ParensWhitespaceStrip(Reset(str))}

\* The counts passed to LStrip(size_t) and RStrip(size_t) on r run up to
\* MaxExcess past the size of r; the largest size_t is passed too.
MaxExcess == 2

StripCounts(r) == 0..(r.m_size + MaxExcess) \cup {NPOS}

\* The string literals passed to LStrip(StringRange) and RStrip(StringRange).
StripLiterals ==
    {<<"(">>, <<")">>, <<",">>, <<":">>, <<"x">>, <<"(", "x">>, <<"x", ")">>,
     <<"s", "e", "q">>, <<" ", "(">>, <<")", " ">>, <<>>}

InputTexts ==
    UNION {TextsWith(n) : n \in PrimitiveTexts} \cup NestingTexts \cup SplitTexts
        \cup PaddedTexts \cup MalformedTexts

(***************************************************************************)
(* The registry: GetTypeStrToProtoMap().  The unordered_map is the         *)
(* sequence of its nodes, each a pair [first |-> key, second |-> value];   *)
(* a node never moves, so a PTYPE (a pointer to a node's key) is the       *)
(* node's index.                                                           *)
(***************************************************************************)
\* find(key): the nodes holding key.  A well-formed map has at most one.
MapFind(reg, key) == {i \in 1..Len(reg) : reg[i].first = key}

\* The lookup inside operator[]: the node found, or 0.
IndexLookup(reg, key) == IF MapFind(reg, key) = {} THEN {0} ELSE MapFind(reg, key)

\* A container that puts the new element first and moves the others.
MapInsertFront(reg, key) == <<[first |-> key, second |-> NotSet]>> \o reg

\* The insertion inside operator[]: a new node with a value-initialized
\* TypeProto.
MapInsertDefault(reg, key) == Append(reg, [first |-> key, second |-> NotSet])

\* The assignment to the reference operator[] returned.
MapAssign(reg, node, value) == [reg EXCEPT ![node].second = value]

\* &begin()->first instead of &find(typeStr)->first
ReturnBegin(reg, typeStr) == {1}

\* &(find(typeStr)->first)
ReturnedHandle(reg, typeStr) == MapFind(reg, typeStr)

\* The text passed to ToType(const std::string&) used as the key, unparsed.
RawKey(f) == IF f.op = "ToTypeText" THEN Ok(f.text) ELSE ToString(f.p_type)

\* auto typeStr = ToString(p_type): the key of the call with frame f.
CanonicalKey(f) == ToString(f.p_type)

(***************************************************************************)
(* Inputs of the registry.                                                 *)
(***************************************************************************)
NumThreads == 2

MaxCalls == 3

Threads == 1..NumThreads

float == c_float

RegistryTypes ==
    {TensorType("FLOAT"),
     SeqType(TensorType("FLOAT")),
     RecordType(<<ValueInfo(<<"a">>, TensorType("FLOAT")),
                  ValueInfo(<<"b">>, TensorType("FLOAT"))>>),
     RecordType(<<ValueInfo(<<"a", ":">> \o float \o <<",", "b">>, TensorType("FLOAT"))>>),
     TensorType(UNDEFINED),
     NotSet}

RegistryTexts ==
    {float,
     <<" ">> \o float \o <<" ">>,
     <<"s", "e", "q", "(">> \o float \o <<")">>,
     <<"s", "e", "q", "(", " ">> \o float \o <<" ", ")">>,
     <<"b", "o", "g", "u", "s">>}

\* Strings a caller owns and passes to ToTypeProto by address.
ForeignStrings == {float, <<"b", "o", "g", "u", "s">>}

(***************************************************************************)
(* State.                                                                  *)
(*                                                                         *)
(* origin, p_type, kind, p_src, parsed, again, converted, fields, window,   *)
(* step: one run of the pure functions on one input (a descriptor, a       *)
(* DataType, a type expression, a primitive name or the string of a        *)
(* range).  fields holds the segments SplitRecords pushed, window the      *)
(* characters a range spans after ParensWhitespaceStrip.                   *)
(*                                                                         *)
(* before, call, range: one call of a StringRange method, the range        *)
(* before it, the method with its argument and the bool it returned, and   *)
(* the range after it (for Find, the range searched, the index returned    *)
(* and the range built with it).  range, parens, p_records: the locals of  *)
(* SplitRecords while its loop runs.                                       *)
(*                                                                         *)
(* registry: the map.  pc[t], frame[t]: where thread t is in its call and  *)
(* the call's arguments and locals.  calls: the calls started.             *)
(* internedTypes, internedTexts, resolved: what the calls returned, each   *)
(* under the number of its call.                                           *)
(***************************************************************************)
VARIABLES origin, p_type, kind, p_src, parsed, again, converted, fields, window, step,
          before, call, range, parens, p_records,
          registry, pc, frame, calls, internedTypes, internedTexts, resolved

scanVars == <<before, call, range, parens, p_records>>

parseVars ==
    <<origin, p_type, kind, p_src, parsed, again, converted, fields, window, step,
      before, call, range, parens, p_records>>

registryVars == <<registry, pc, frame, calls, internedTypes, internedTexts, resolved>>

vars == <<origin, p_type, kind, p_src, parsed, again, converted, fields, window, step,
          before, call, range, parens, p_records,
          registry, pc, frame, calls, internedTypes, internedTexts, resolved>>

NoString == [ok |-> FALSE, err |-> "none", str |-> <<>>]

NoType == [ok |-> FALSE, err |-> "none", type |-> NotSet]

NoDataType == [ok |-> FALSE, err |-> "none", type |-> UNDEFINED]

\* StringRange(): the empty range over "".
NoRange == [buf |-> <<>>, m_data |-> 0, m_size |-> 0, m_start |-> 0, m_end |-> 0]

NoCall == [op |-> "none", arg |-> "none", count |-> 0, lit |-> <<>>, ok |-> FALSE]

ScanIdle ==
    /\ before = NoRange
    /\ call = NoCall
    /\ range = NoRange
    /\ parens = 0
    /\ p_records = <<>>

NoFrame == [op |-> "none", id |-> 0, p_type |-> NotSet, text |-> <<>>, typeStr |-> <<>>,
            node |-> 0, handle |-> 0]

ParseIdle ==
    /\ origin = "none"
    /\ p_type = NotSet
    /\ kind = UNDEFINED
    /\ p_src = NoString
    /\ parsed = NoType
    /\ again = NoString
    /\ converted = NoDataType
    /\ fields = <<>>
    /\ window = <<>>
    /\ step = "start"
    /\ ScanIdle

\* The map is empty until the first call that uses it.
InitRegistry ==
    /\ registry = <<>>
    /\ pc = [t \in Threads |-> "idle"]
    /\ frame = [t \in Threads |-> NoFrame]
    /\ calls = 0
    /\ internedTypes = {}
    /\ internedTexts = {}
    /\ resolved = {}

InitParse ==
    /\ InitRegistry
    /\ parsed = NoType
    /\ again = NoString
    /\ converted = NoDataType
    /\ fields = <<>>
    /\ window = <<>>
    /\ ScanIdle
    /\ \/ /\ origin = "window"
          /\ p_type = NotSet
          /\ kind = UNDEFINED
          /\ p_src \in {Ok(t) : t \in WindowTexts}
          /\ step = "serialized"
       \/ /\ origin = "descriptor"
          /\ p_type \in InputTypes
          /\ kind = UNDEFINED
          /\ p_src = NoString
          /\ step = "start"
       \/ /\ origin = "kind"
          /\ p_type = NotSet
          /\ kind \in DataTypes \cup {UNDEFINED}
          /\ p_src = NoString
          /\ step = "start"
       \/ /\ origin = "text"
          /\ p_type = NotSet
          /\ kind = UNDEFINED
          /\ p_src \in {Ok(t) : t \in InputTexts}
          /\ step = "serialized"
       \/ /\ origin = "name"
          /\ p_type = NotSet
          /\ kind = UNDEFINED
          /\ p_src \in {Ok(n) : n \in PrimitiveTexts}
          /\ step = "serialized"

\* ToString(p_type)
Serialize ==
    /\ step = "start"
    /\ origin = "descriptor"
    /\ p_src' = ToString(p_type)
    /\ step' = "serialized"
    /\ UNCHANGED <<origin, p_type, kind, parsed, again, converted, fields, window>>
    /\ UNCHANGED scanVars
    /\ UNCHANGED registryVars

\* FromString(p_src, type)
Parse ==
    /\ step = "serialized"
    /\ origin \in {"descriptor", "text"}
    /\ p_src.ok
    /\ parsed' = FromString(p_src.str)
    /\ step' = "parsed"
    /\ UNCHANGED <<origin, p_type, kind, p_src, again, converted, fields, window>>
    /\ UNCHANGED scanVars
    /\ UNCHANGED registryVars

\* ToString(type) of the descriptor FromString built
Reserialize ==
    /\ step = "parsed"
    /\ parsed.ok
    /\ again' = ToString(parsed.type)
    /\ step' = "reserialized"
    /\ UNCHANGED <<origin, p_type, kind, p_src, parsed, converted, fields, window>>
    /\ UNCHANGED scanVars
    /\ UNCHANGED registryVars

\* FromString(p_src, dataType)
Convert ==
    /\ step = "serialized"
    /\ origin \in {"name", "kind"}
    /\ p_src.ok
    /\ converted' = FromStringDataType(p_src.str)
    /\ step' = "converted"
    /\ UNCHANGED <<origin, p_type, kind, p_src, parsed, again, fields, window>>
    /\ UNCHANGED scanVars
    /\ UNCHANGED registryVars

\* ToString(kind)
SerializeDataType ==
    /\ step = "start"
    /\ origin = "kind"
    /\ p_src' = ToStringDataType(kind)
    /\ step' = "serialized"
    /\ UNCHANGED <<origin, p_type, kind, parsed, again, converted, fields, window>>
    /\ UNCHANGED scanVars
    /\ UNCHANGED registryVars

\* The record and union branches of FromString(p_src, type) up to the call
\* of SplitRecords: the tag, ParensWhitespaceStrip, SplitRecords(s, fields).
Split ==
    /\ step = "serialized"
    /\ origin = "text"
    /\ EntriesTag(p_src.str) # <<>>
    /\ fields' = CapturedTexts(SplitRecords(Payload(p_src.str, EntriesTag(p_src.str))))
    /\ step' = "split"
    /\ UNCHANGED <<origin, p_type, kind, p_src, parsed, again, converted, window>>
    /\ UNCHANGED scanVars
    /\ UNCHANGED registryVars

\* r.Reset(p_src); r.ParensWhitespaceStrip(): window is what r spans then.
Unwrap ==
    /\ step = "serialized"
    /\ origin = "window"
    /\ window' = StdString(ParensWhitespaceStrip(Reset(p_src.str))).str
    /\ step' = "unwrapped"
    /\ UNCHANGED <<origin, p_type, kind, p_src, parsed, again, converted, fields>>
    /\ UNCHANGED scanVars
    /\ UNCHANGED registryVars

\* r.LStrip(p_size) or r.RStrip(p_size)
StripCount ==
    /\ step = "serialized"
    /\ origin = "window"
    /\ \E r \in StripWindows(p_src.str), op \in {"LStrip", "RStrip"} :
          \E p_size \in StripCounts(r) :
             LET res == IF op = "LStrip" THEN LStripN(r, p_size) ELSE RStripN(r, p_size)
             IN  /\ before' = r
                 /\ call' = [op |-> op, arg |-> "size_t", count |-> p_size, lit |-> <<>>,
                             ok |-> res.ok]
                 /\ range' = res.r
    /\ step' = "stripped"
    /\ UNCHANGED <<origin, p_type, kind, p_src, parsed, again, converted, fields, window>>
    /\ UNCHANGED <<parens, p_records>>
    /\ UNCHANGED registryVars

\* r.LStrip(literal) or r.RStrip(literal): the parameter p_str is the
\* StringRange made of the literal, call.lit the characters it spans.
StripLiteral ==
    /\ step = "serialized"
    /\ origin = "window"
    /\ \E r \in StripWindows(p_src.str), op \in {"LStrip", "RStrip"} :
          \E literal \in StripLiterals :
             LET p_str == StdString(StringRangeOf(literal)).str
                 res == IF op = "LStrip" THEN LStripLit(r, p_str) ELSE RStripLit(r, p_str)
             IN  /\ before' = r
                 /\ call' = [op |-> op, arg |-> "StringRange", count |-> 0, lit |-> p_str,
                             ok |-> res.ok]
                 /\ range' = res.r
    /\ step' = "stripped"
    /\ UNCHANGED <<origin, p_type, kind, p_src, parsed, again, converted, fields, window>>
    /\ UNCHANGED <<parens, p_records>>
    /\ UNCHANGED registryVars

\* SplitRecords is entered from the record or union branch of
\* FromString(p_src, type): parens = 0 and p_src.RestartCapture().
SplitEnter ==
    /\ step = "serialized"
    /\ origin = "text"
    /\ EntriesTag(p_src.str) # <<>>
    /\ range' = RestartCapture(Payload(p_src.str, EntriesTag(p_src.str)))
    /\ parens' = 0
    /\ p_records' = <<>>
    /\ step' = "splitting"
    /\ UNCHANGED <<origin, p_type, kind, p_src, parsed, again, converted, fields, window>>
    /\ UNCHANGED <<before, call>>
    /\ UNCHANGED registryVars

\* An iteration that strips nothing from p_src.
SplitIterateNoStrip ==
    /\ step = "splitting"
    /\ range.m_size > 0
    /\ parens = 0
    /\ parens' = 1
    /\ UNCHANGED <<origin, p_type, kind, p_src, parsed, again, converted, fields, window>>
    /\ UNCHANGED <<before, call, range, p_records, step>>
    /\ UNCHANGED registryVars

\* while (p_src.Size() > 0): one iteration.
SplitIterate ==
    /\ step = "splitting"
    /\ range.m_size > 0
    /\ LET next == SplitBody(range, parens, p_records)
       IN  /\ range' = next.p_src
           /\ parens' = next.parens
           /\ p_records' = next.p_records
    /\ UNCHANGED <<origin, p_type, kind, p_src, parsed, again, converted, fields, window>>
    /\ UNCHANGED <<before, call, step>>
    /\ UNCHANGED registryVars

\* The loop is left: p_records.push_back(p_src.GetCaptured()), and fields
\* is what the caller finds in its vector.
SplitLeave ==
    /\ step = "splitting"
    /\ ~(range.m_size > 0)
    /\ p_records' = Append(p_records, GetCaptured(range))
    /\ fields' = CapturedTexts(p_records')
    /\ step' = "split"
    /\ UNCHANGED <<origin, p_type, kind, p_src, parsed, again, converted, window>>
    /\ UNCHANGED <<before, call, range, parens>>
    /\ UNCHANGED registryVars

\* size_t key_size = s.Find(','); StringRange k(s.Data(), key_size); in the
\* map branch, and name_size, n in the record and union loops: call.count
\* is what Find returned and range is k or n.
Locate ==
    /\ step = "serialized"
    /\ origin = "text"
    /\ \E f \in FindCalls(p_src.str) :
          LET found == Find(f.r, f.p_ch)
          IN  /\ before' = f.r
              /\ call' = [op |-> "Find", arg |-> f.p_ch, count |-> found, lit |-> <<>>,
                          ok |-> found # NPOS]
              /\ range' = StringRange(f.r.buf, f.r.m_data, found)
    /\ step' = "located"
    /\ UNCHANGED <<origin, p_type, kind, p_src, parsed, again, converted, fields, window>>
    /\ UNCHANGED <<parens, p_records>>
    /\ UNCHANGED registryVars

NextParse ==
    \/ Serialize
    \/ Parse
    \/ Reserialize
    \/ Convert
    \/ SerializeDataType
    \/ Split
    \/ Unwrap
    \/ StripCount
    \/ StripLiteral
    \/ SplitEnter
    \/ SplitIterate
    \/ SplitLeave
    \/ Locate

SpecParse == InitParse /\ [][NextParse]_vars

\* SplitRecords runs on: a thread inside the loop takes its next step.
SpecParseRun ==
    InitParse /\ [][NextParse]_vars /\ WF_vars(SplitIterate) /\ WF_vars(SplitLeave)

(***************************************************************************)
(* The calls on the registry, one action per access to the map.  The code  *)
(* takes no lock, so the steps of two threads interleave freely.           *)
(***************************************************************************)
\* assert failed: the process is gone.
Alive == \A t \in Threads : pc[t] # "aborted"

CanCall(t) == Alive /\ pc[t] = "idle" /\ calls < MaxCalls

\* ToType(const TypeProto&) is entered.
CallToType(t) ==
    /\ CanCall(t)
    /\ \E type \in RegistryTypes :
          frame' = [frame EXCEPT ![t] = [NoFrame EXCEPT !.op = "ToType", !.id = calls + 1,
                                                   !.p_type = type]]
    /\ pc' = [pc EXCEPT ![t] = "ToString"]
    /\ calls' = calls + 1
    /\ UNCHANGED <<registry, internedTypes, internedTexts, resolved>>
    /\ UNCHANGED parseVars

\* ToType(const std::string&) is entered.
CallToTypeText(t) ==
    /\ CanCall(t)
    /\ \E text \in RegistryTexts :
          frame' = [frame EXCEPT ![t] = [NoFrame EXCEPT !.op = "ToTypeText", !.id = calls + 1,
                                                   !.text = text]]
    /\ pc' = [pc EXCEPT ![t] = "FromString"]
    /\ calls' = calls + 1
    /\ UNCHANGED <<registry, internedTypes, internedTexts, resolved>>
    /\ UNCHANGED parseVars

\* ToTypeProto is entered with a handle an earlier ToType returned.
CallToTypeProto(t) ==
    /\ CanCall(t)
    /\ \E h \in {x.h : x \in internedTypes} :
          frame' = [frame EXCEPT ![t] =
                       [NoFrame EXCEPT !.op = "ToTypeProto", !.id = calls + 1, !.handle = h,
                                       !.typeStr = registry[h].first]]
    /\ pc' = [pc EXCEPT ![t] = "resolve"]
    /\ calls' = calls + 1
    /\ UNCHANGED <<registry, internedTypes, internedTexts, resolved>>
    /\ UNCHANGED parseVars

\* ToTypeProto is entered with the address of a string of the caller.
CallToTypeProtoForeign(t) ==
    /\ CanCall(t)
    /\ \E str \in ForeignStrings :
          frame' = [frame EXCEPT ![t] =
                       [NoFrame EXCEPT !.op = "ToTypeProto", !.id = calls + 1,
                                       !.typeStr = str]]
    /\ pc' = [pc EXCEPT ![t] = "resolve"]
    /\ calls' = calls + 1
    /\ UNCHANGED <<registry, internedTypes, internedTexts, resolved>>
    /\ UNCHANGED parseVars

\* ToType(const std::string&) looking the text up with operator[] before it
\* parses it.
DoFromStringKeyed(t) ==
    /\ Alive
    /\ pc[t] = "FromString"
    /\ registry' = IF MapFind(registry, frame[t].text) = {}
                   THEN MapInsertDefault(registry, frame[t].text)
                   ELSE registry
    /\ LET r == FromString(frame[t].text)
       IN  IF r.ok
           THEN /\ frame' = [frame EXCEPT ![t].p_type = r.type]
                /\ pc' = [pc EXCEPT ![t] = "ToString"]
           ELSE /\ frame' = [frame EXCEPT ![t] = NoFrame]
                /\ pc' = [pc EXCEPT ![t] = "idle"]
    /\ UNCHANGED <<calls, internedTypes, internedTexts, resolved>>
    /\ UNCHANGED parseVars

\* ToType(const std::string&): FromString(p_type, type); its exception leaves
\* the call.
DoFromString(t) ==
    /\ Alive
    /\ pc[t] = "FromString"
    /\ LET r == FromString(frame[t].text)
       IN  IF r.ok
           THEN /\ frame' = [frame EXCEPT ![t].p_type = r.type]
                /\ pc' = [pc EXCEPT ![t] = "ToString"]
           ELSE /\ frame' = [frame EXCEPT ![t] = NoFrame]
                /\ pc' = [pc EXCEPT ![t] = "idle"]
    /\ UNCHANGED <<registry, calls, internedTypes, internedTexts, resolved>>
    /\ UNCHANGED parseVars

\* auto typeStr = ToString(p_type); its exception leaves the call.
DoToString(t) ==
    /\ Alive
    /\ pc[t] = "ToString"
    /\ LET r == CanonicalKey(frame[t])
       IN  IF r.ok
           THEN /\ frame' = [frame EXCEPT ![t].typeStr = r.str]
                /\ pc' = [pc EXCEPT ![t] = "find"]
           ELSE /\ frame' = [frame EXCEPT ![t] = NoFrame]
                /\ pc' = [pc EXCEPT ![t] = "idle"]
    /\ UNCHANGED <<registry, calls, internedTypes, internedTexts, resolved>>
    /\ UNCHANGED parseVars

\* if (find(typeStr) == end())
DoFind(t) ==
    /\ Alive
    /\ pc[t] = "find"
    /\ pc' = [pc EXCEPT ![t] =
                 IF MapFind(registry, frame[t].typeStr) = {} THEN "index" ELSE "return"]
    /\ UNCHANGED <<registry, frame, calls, internedTypes, internedTexts, resolved>>
    /\ UNCHANGED parseVars

\* operator[](typeStr), first half: look the key up.
DoIndexLookup(t) ==
    /\ Alive
    /\ pc[t] = "index"
    /\ \E n \in IndexLookup(registry, frame[t].typeStr) :
          frame' = [frame EXCEPT ![t].node = n]
    /\ pc' = [pc EXCEPT ![t] = "insert"]
    /\ UNCHANGED <<registry, calls, internedTypes, internedTexts, resolved>>
    /\ UNCHANGED parseVars

\* operator[](typeStr), second half: insert a node when the lookup found none.
DoIndexInsert(t) ==
    /\ Alive
    /\ pc[t] = "insert"
    /\ IF frame[t].node = 0
       THEN /\ registry' = MapInsertDefault(registry, frame[t].typeStr)
            /\ frame' = [frame EXCEPT ![t].node = Len(registry')]
       ELSE UNCHANGED <<registry, frame>>
    /\ pc' = [pc EXCEPT ![t] = "assign"]
    /\ UNCHANGED <<calls, internedTypes, internedTexts, resolved>>
    /\ UNCHANGED parseVars

\* ... = p_type
DoAssign(t) ==
    /\ Alive
    /\ pc[t] = "assign"
    /\ registry' = MapAssign(registry, frame[t].node, frame[t].p_type)
    /\ pc' = [pc EXCEPT ![t] = "return"]
    /\ UNCHANGED <<frame, calls, internedTypes, internedTexts, resolved>>
    /\ UNCHANGED parseVars

\* return &(find(typeStr)->first)
DoReturn(t) ==
    /\ Alive
    /\ pc[t] = "return"
    /\ \E h \in ReturnedHandle(registry, frame[t].typeStr) :
          /\ internedTypes' = internedTypes \cup
                {[id |-> frame[t].id, p_type |-> frame[t].p_type,
                  str |-> frame[t].typeStr, h |-> h]}
          /\ internedTexts' =
                IF frame[t].op = "ToTypeText"
                THEN internedTexts \cup {[id |-> frame[t].id, text |-> frame[t].text, h |-> h]}
                ELSE internedTexts
    /\ frame' = [frame EXCEPT ![t] = NoFrame]
    /\ pc' = [pc EXCEPT ![t] = "idle"]
    /\ UNCHANGED <<registry, calls, resolved>>
    /\ UNCHANGED parseVars

\* ToTypeProto: find(*p_type), the assert, return it->second.  When the key
\* is missing the assert ends the process; compiled with NDEBUG there is no
\* assert and it->second reads through end(), which is undefined.
DoResolve(t) ==
    /\ Alive
    /\ pc[t] = "resolve"
    /\ LET found == MapFind(registry, frame[t].typeStr)
           result(outcome, type) ==
               [id |-> frame[t].id, h |-> frame[t].handle, str |-> frame[t].typeStr,
                present |-> found # {},
                outcome |-> outcome, type |-> type]
       IN  IF found # {}
           THEN /\ \E i \in found :
                      resolved' = resolved \cup {result("descriptor", registry[i].second)}
                /\ pc' = [pc EXCEPT ![t] = "idle"]
           ELSE \/ /\ resolved' = resolved \cup {result("abort", NotSet)}
                   /\ pc' = [pc EXCEPT ![t] = "aborted"]
                \/ /\ resolved' = resolved \cup {result("undefined", NotSet)}
                   /\ pc' = [pc EXCEPT ![t] = "idle"]
    /\ frame' = [frame EXCEPT ![t] = NoFrame]
    /\ UNCHANGED <<registry, calls, internedTypes, internedTexts>>
    /\ UNCHANGED parseVars

Enter(t) ==
    \/ CallToType(t)
    \/ CallToTypeText(t)
    \/ CallToTypeProto(t)
    \/ CallToTypeProtoForeign(t)

Run(t) ==
    \/ DoFromString(t)
    \/ DoToString(t)
    \/ DoFind(t)
    \/ DoIndexLookup(t)
    \/ DoIndexInsert(t)
    \/ DoAssign(t)
    \/ DoReturn(t)
    \/ DoResolve(t)

Quiet == \A t \in Threads : pc[t] = "idle"

InitCalls == ParseIdle /\ InitRegistry

\* Calls from any thread, one after the other.
NextSeq == \E t \in Threads : (Quiet /\ Enter(t)) \/ Run(t)

SpecSeq == InitCalls /\ [][NextSeq]_vars

\* Calls from any thread, overlapping.
NextConc == \E t \in Threads : Enter(t) \/ Run(t)

SpecConc == InitCalls /\ [][NextConc]_vars

(***************************************************************************)
(* Round trip of ToString and FromString.                                  *)
(***************************************************************************)
Delimiters == {":", ",", "(", ")"}

\* A name the grammar can carry: no delimiter in it, no white space at
\* either end.
PlainName(n) ==
    /\ \A i \in 1..Len(n) : n[i] \notin Delimiters
    /\ Len(n) > 0 => ~IsSpace(n[1]) /\ ~IsSpace(n[Len(n)])

\* The entries of a record or a union; none for the other cases.
Entries(t) ==
    IF t.value_case = "kRecordType" THEN t.field
    ELSE IF t.value_case = "kUnionType" THEN t.choice
    ELSE <<>>

\* Every element and key kind of t is a DataType with a name, and every
\* record and union has an entry.
RECURSIVE KindsDefined(_)
KindsDefined(t) ==
    CASE t.value_case = "kTensorType" -> t.tensor_elem_type \in DataTypes
      [] t.value_case = "kSparseTensorType" -> t.sparse_elem_type \in DataTypes
      [] t.value_case = "kSeqType" -> KindsDefined(t.seq_elem_type)
      [] t.value_case = "kMapType" -> t.key_type \in DataTypes /\ KindsDefined(t.value_type)
      [] t.value_case \in {"kRecordType", "kUnionType"} ->
            /\ Len(Entries(t)) > 0
            /\ \A i \in 1..Len(Entries(t)) : KindsDefined(Entries(t)[i].type)
      [] OTHER -> FALSE

RECURSIVE NamesPlain(_)
NamesPlain(t) ==
    CASE t.value_case = "kSeqType" -> NamesPlain(t.seq_elem_type)
      [] t.value_case = "kMapType" -> NamesPlain(t.value_type)
      [] t.value_case \in {"kRecordType", "kUnionType"} ->
            \A i \in 1..Len(Entries(t)) :
                PlainName(Entries(t)[i].name) /\ NamesPlain(Entries(t)[i].type)
      [] OTHER -> TRUE

WellFormed(t) == KindsDefined(t) /\ NamesPlain(t)

RoundTrips ==
    /\ step # "start" => p_src.ok
    /\ step \in {"parsed", "reserialized"} => parsed.ok /\ parsed.type = p_type

\* C1 (as stated): for every descriptor built from the six cases over the
\* defined kinds, with any entry names, FromString(ToString(T)) succeeds and
\* yields T.
C1_RoundTripAnyName == origin = "descriptor" /\ KindsDefined(p_type) => RoundTrips

\* C1 (amended): for every descriptor whose element and key kinds are
\* defined DataTypes and whose entry names hold no ':' ',' '(' ')' and no
\* leading or trailing white space, ToString(T) succeeds and
\* FromString(ToString(T)) succeeds and yields a descriptor equal to T, with
\* the same names in the same order.
C1_RoundTrip == origin = "descriptor" /\ WellFormed(p_type) => RoundTrips

\* A two-entry record with a map field has been serialized and parsed back.
C1_Witness ==
    /\ origin = "descriptor"
    /\ step = "parsed"
    /\ WellFormed(p_type)
    /\ p_type.value_case = "kRecordType"
    /\ Len(p_type.field) = 2
    /\ p_type.field[2].type.value_case = "kMapType"
    /\ parsed.ok
    /\ parsed.type = p_type

(***************************************************************************)
(* Unknown primitive names.                                                *)
(***************************************************************************)
UnknownTexts == UNION {TextsWith(n) : n \in UnknownNames}

\* C10: a primitive name outside the table is rejected with
\* std::invalid_argument, whether converted directly or met as the bare text
\* or an element of a type expression, and no successful conversion or parse
\* yields UNDEFINED.
C10_UnknownPrimitiveRejected ==
    /\ step = "converted" =>
          /\ p_src.str \notin GetAllowedDataTypes =>
                ~converted.ok /\ converted.err = "invalid_argument"
          /\ converted.ok => converted.type \in DataTypes
    /\ step = "parsed" /\ origin = "text" =>
          /\ p_src.str \in UnknownTexts =>
                ~parsed.ok /\ parsed.err = "invalid_argument"
          /\ parsed.ok => KindsDefined(parsed.type)

\* "tensor(bogus)" has been parsed, and "bogus" converted.
C10_Witness ==
    \/ /\ origin = "text"
       /\ step = "parsed"
       /\ p_src.str = <<"t", "e", "n", "s", "o", "r", "(", "b", "o", "g", "u", "s", ")">>
       /\ ~parsed.ok
       /\ parsed.err = "invalid_argument"
    \/ /\ origin = "name"
       /\ step = "converted"
       /\ p_src.str = <<"b", "o", "g", "u", "s">>
       /\ ~converted.ok

(***************************************************************************)
(* The registry's handles.                                                 *)
(***************************************************************************)
\* The entry names that occur in t, at any depth.
RECURSIVE NamesOf(_)
NamesOf(t) ==
    CASE t.value_case = "kSeqType" -> NamesOf(t.seq_elem_type)
      [] t.value_case = "kMapType" -> NamesOf(t.value_type)
      [] t.value_case \in {"kRecordType", "kUnionType"} ->
            UNION {{Entries(t)[i].name} \cup NamesOf(Entries(t)[i].type) :
                      i \in 1..Len(Entries(t))}
      [] OTHER -> {}

NoDelimiters(t) == \A n \in NamesOf(t) : \A i \in 1..Len(n) : n[i] \notin Delimiters

\* C2 (as stated): two ToType(TypeProto) calls return the same handle if and
\* only if their descriptors are structurally equal.
C2_HandleIffEqualAnyName ==
    \A x, y \in internedTypes : (x.h = y.h) <=> (x.p_type = y.p_type)

\* C2 (amended): for descriptors whose entry names hold no ':' ',' '(' ')',
\* interned by calls that follow one another in any order, two ToType calls
\* return the same handle if and only if their descriptors are structurally
\* equal.
C2_HandleIffEqual ==
    \A x, y \in internedTypes :
        NoDelimiters(x.p_type) /\ NoDelimiters(y.p_type) =>
            ((x.h = y.h) <=> (x.p_type = y.p_type))

\* Three calls have interned tensor(FLOAT), seq(tensor(FLOAT)) and
\* tensor(FLOAT) again.
C2_Witness ==
    \E x, y, z \in internedTypes :
        /\ x.id < y.id /\ y.id < z.id
        /\ x.p_type = TensorType("FLOAT")
        /\ y.p_type = SeqType(TensorType("FLOAT"))
        /\ z.p_type = x.p_type
        /\ x.h = z.h
        /\ x.h # y.h

\* C3: after any sequence of ToType calls every returned handle refers to
\* the canonical string of its call, two returned handles are equal exactly
\* when the strings they refer to are equal, and interning a canonical string
\* again returns the handle it got before.
C3_HandleIffSameString ==
    \A x, y \in internedTypes :
        /\ x.h \in 1..Len(registry)
        /\ registry[x.h].first = x.str
        /\ (x.h = y.h) <=> (registry[x.h].first = registry[y.h].first)
        /\ x.str = y.str => x.h = y.h

\* A string has been interned, then another one, then the first again.
C3_Witness ==
    \E x, y, z \in internedTypes :
        /\ x.id < y.id /\ y.id < z.id
        /\ x.str = z.str
        /\ x.str # y.str
        /\ x.h = z.h

\* C4: ToType calls of several threads for one type all return one handle,
\* and the registry holds one entry for a canonical string.
C4_ConcurrentInternConverges ==
    /\ \A x, y \in internedTypes : x.p_type = y.p_type => x.h = y.h
    /\ \A i, j \in 1..Len(registry) : registry[i].first = registry[j].first => i = j

\* Thread t is inside map[typeStr] = p_type, having found typeStr absent.
Inserting(t) == pc[t] \in {"index", "insert", "assign"}

\* Thread t has linked its node and not yet assigned the value.
Modifying(t) == pc[t] = "assign"

\* Thread t's next step reads or writes the map.
Accessing(t) == pc[t] \in {"find", "index", "insert", "assign", "return", "resolve"}

\* C5: no two threads are both past a find() that missed the same string and
\* about to insert it, and no thread is at a read or write of the map while
\* another thread is in the middle of modifying it.
C5_InsertIfAbsentSynchronized ==
    \A t, u \in Threads :
        t # u =>
            /\ ~(Inserting(t) /\ Inserting(u) /\ frame[t].typeStr = frame[u].typeStr)
            /\ ~(Modifying(t) /\ Accessing(u))

\* C6 (as stated): the string a handle returned by ToType(text) refers to is
\* the text passed in.
C6_KeyedByRawText ==
    \A x \in internedTexts : registry[x.h].first = x.text

\* C6 (amended): ToType(text) always parses text and interns the parsed
\* descriptor: the string the returned handle refers to is
\* ToString(FromString(text)), not the raw text, and two texts that parse to
\* the same descriptor receive the same handle (calls following one another).
C6_KeyedByCanonicalString ==
    \A x, y \in internedTexts :
        LET type == FromString(x.text)
        IN  /\ type.ok
            /\ ToString(type.type).ok
            /\ registry[x.h].first = ToString(type.type).str
            /\ type.type = FromString(y.text).type => x.h = y.h

\* " float " and "float" have been interned and share the handle of "float".
C6_Witness ==
    \E x, y \in internedTexts :
        /\ x.text = <<" ">> \o float \o <<" ">>
        /\ y.text = float
        /\ registry[x.h].first = float
        /\ x.h = y.h

KeysKept ==
    /\ Len(registry') >= Len(registry)
    /\ \A i \in 1..Len(registry) : registry'[i].first = registry[i].first
    /\ \A x \in internedTypes : registry'[x.h].first = x.str

\* C7: across any sequence of ToType and ToTypeProto calls no node of the
\* registry is removed, no key changes, and every handle returned earlier
\* keeps referring to the canonical string it was returned for.
C7_InsertOnly == [][KeysKept]_vars

\* Two strings are in the registry and a handle has been resolved.
C7_Witness ==
    /\ Len(registry) >= 2
    /\ \E r \in resolved : r.h # 0 /\ r.outcome = "descriptor"

\* C8: ToTypeProto of a handle that ToType returned gives a fully-formed
\* descriptor whose serialization is the string the handle refers to.
C8_ResolveFullyFormed ==
    \A r \in resolved :
        r.h # 0 =>
            /\ r.outcome = "descriptor"
            /\ r.type # NotSet
            /\ ToString(r.type).ok
            /\ ToString(r.type).str = r.str

\* C9: ToTypeProto of a handle whose string is no key of the registry ends
\* the process; it returns nothing to the caller.
C9_ForeignHandleFatal ==
    \A r \in resolved : ~r.present => r.outcome = "abort"

(***************************************************************************)
(* The primitive table.                                                    *)
(***************************************************************************)
\* The names ToString gives the defined kinds.
PrimitiveNames == {ToStringDataType(k).str : k \in DataTypes}

\* ToString(kind) then FromString of the name: every defined kind has a name
\* that no other kind has and that converts back to the kind.
KindRoundTrips ==
    step = "converted" /\ origin = "kind" =>
        /\ kind \in DataTypes
        /\ p_src.ok
        /\ \A k \in DataTypes : ToStringDataType(k).str = p_src.str => k = kind
        /\ converted.ok
        /\ converted.type = kind

\* C11 (as stated): exactly 14 canonical primitive names exist, every
\* defined kind has exactly one name, no two kinds share a name, and
\* name-to-kind conversion inverts kind-to-name conversion for every kind.
C11_PrimitiveCompleteness14 ==
    /\ step = "serialized" /\ origin = "kind" /\ kind \in DataTypes => p_src.ok
    /\ KindRoundTrips
    /\ step = "converted" /\ origin = "kind" => Cardinality(PrimitiveNames) = 14

\* C11 (amended): exactly 15 canonical primitive names exist, one per
\* defined kind, no two kinds share a name, name-to-kind conversion inverts
\* kind-to-name conversion for every defined kind, and the names are the
\* allowed data type strings.
C11_PrimitiveCompleteness ==
    /\ step = "serialized" /\ origin = "kind" /\ kind \in DataTypes => p_src.ok
    /\ KindRoundTrips
    /\ step = "converted" /\ origin = "kind" =>
          /\ Cardinality(PrimitiveNames) = 15
          /\ PrimitiveNames = GetAllowedDataTypes

\* FLOAT16 has been named "float16" and the name converted back.
C11_Witness ==
    /\ origin = "kind"
    /\ step = "converted"
    /\ kind = "FLOAT16"
    /\ p_src.str = c_float16
    /\ converted.ok
    /\ converted.type = "FLOAT16"

(***************************************************************************)
(* Nesting.                                                                *)
(***************************************************************************)
\* Sequence(Map(string, DenseTensor(int64)))
SeqOfMap == SeqType(MapType("STRING", TensorType("INT64")))

\* The text p_src parses to the descriptor t and t serializes back to it.
ParsesToAndBack(text, t) ==
    origin = "text" /\ p_src.str = text =>
        /\ step = "parsed" => parsed.ok /\ parsed.type = t
        /\ step = "reserialized" => again.ok /\ again.str = text

\* C12 (as stated): "seq(map(string,tensor(int64)))" parses to
\* Sequence(Map(string, DenseTensor(int64))), which serializes back to the
\* identical string.
C12_NestingTensorKeyword ==
    ParsesToAndBack(<<"s", "e", "q", "(", "m", "a", "p", "(", "s", "t", "r", "i", "n", "g", ",",
            "t", "e", "n", "s", "o", "r", "(", "i", "n", "t", "6", "4", ")", ")", ")">>, SeqOfMap)

\* C12 (amended): "seq(map(string,int64))" parses to
\* Sequence(Map(string, DenseTensor(int64))), which serializes back to the
\* identical string.
C12_Nesting == ParsesToAndBack(<<"s", "e", "q", "(", "m", "a", "p", "(", "s", "t", "r", "i", "n",
        "g", ",", "i", "n", "t", "6", "4", ")", ")">>, SeqOfMap)

\* "seq(map(string,int64))" has been parsed and the result serialized.
C12_Witness ==
    /\ origin = "text"
    /\ p_src.str = <<"s", "e", "q", "(", "m", "a", "p", "(", "s", "t", "r", "i", "n", "g", ",",
            "i", "n", "t", "6", "4", ")", ")">>
    /\ step = "reserialized"
    /\ parsed.type = SeqOfMap
    /\ again.ok

(***************************************************************************)
(* Splitting a record or union payload.                                    *)
(***************************************************************************)
\* The commas of text[i ..] met at parenthesis depth zero, depth being the
\* count of "(" minus the count of ")" read so far.
RECURSIVE DepthZeroCommas(_, _, _)
DepthZeroCommas(text, i, depth) ==
    IF i > Len(text) THEN 0
    ELSE IF text[i] = "," THEN (IF depth = 0 THEN 1 ELSE 0) + DepthZeroCommas(text, i + 1, depth)
    ELSE IF text[i] = "(" THEN DepthZeroCommas(text, i + 1, depth + 1)
    ELSE IF text[i] = ")" THEN DepthZeroCommas(text, i + 1, depth - 1)
    ELSE DepthZeroCommas(text, i + 1, depth)

\* The payload of a record or union expression, as characters.
PayloadText(text) == StdString(Payload(text, EntriesTag(text))).str

\* C13: SplitRecords cuts the payload at its depth-zero commas only, so it
\* pushes one segment more than there are depth-zero commas, and
\* "record(a:tensor(float),b:map(string,tensor(int32)))" gives exactly the
\* two segments of the fields a and b.
C13_DepthAwareSplit ==
    step = "split" =>
        /\ Len(fields) = 1 + DepthZeroCommas(PayloadText(p_src.str), 1, 0)
        /\ p_src.str = <<"r", "e", "c", "o", "r", "d", "(", "a", ":", "t", "e", "n", "s", "o",
                "r", "(", "f", "l", "o", "a", "t", ")", ",", "b", ":", "m", "a", "p", "(", "s",
                "t", "r", "i", "n", "g", ",", "t", "e", "n", "s", "o", "r", "(", "i", "n", "t",
                "3", "2", ")", ")", ")">> =>
              fields = <<<<"a", ":", "t", "e", "n", "s", "o", "r", "(", "f", "l", "o", "a", "t",
                      ")">>, <<"b", ":", "m", "a", "p", "(", "s", "t", "r", "i", "n", "g", ",",
                      "t", "e", "n", "s", "o", "r", "(", "i", "n", "t", "3", "2", ")", ")">>>>

\* The example has been split in two.
C13_Witness ==
    /\ step = "split"
    /\ p_src.str = <<"r", "e", "c", "o", "r", "d", "(", "a", ":", "t", "e", "n", "s", "o", "r",
            "(", "f", "l", "o", "a", "t", ")", ",", "b", ":", "m", "a", "p", "(", "s", "t", "r",
            "i", "n", "g", ",", "t", "e", "n", "s", "o", "r", "(", "i", "n", "t", "3", "2", ")",
            ")", ")">>
    /\ Len(fields) = 2

(***************************************************************************)
(* White space.                                                            *)
(***************************************************************************)
\* The outcome of a parse that a caller can tell from another: success with
\* a descriptor, or failure.
SameOutcome(a, b) == a.ok = b.ok /\ (a.ok => a.type = b.type)

\* C14: a text with white space around the whole expression and directly
\* inside its parentheses parses as the text without it does: to the same
\* descriptor, or not at all; "  seq( tensor(float) )  " parses as
\* "seq(tensor(float))" does.
C14_WhitespaceTolerance ==
    origin = "text" /\ step = "parsed" =>
        /\ \A i \in PaddedShapes, n \in PaddedLeaves, o \in OuterSpace, w \in InnerSpace :
              p_src.str = PaddedText(i, n, o, w) =>
                  SameOutcome(parsed, FromString(PaddedText(i, n, <<>>, <<>>)))
        /\ p_src.str = <<" ", " ", "s", "e", "q", "(", " ", "t", "e", "n", "s", "o", "r", "(",
                "f", "l", "o", "a", "t", ")", " ", ")", " ", " ">> =>
              SameOutcome(parsed, FromString(<<"s", "e", "q", "(", "t", "e", "n", "s", "o", "r",
                      "(", "f", "l", "o", "a", "t", ")", ")">>))

\* "  seq( float )  " has been parsed to Sequence(DenseTensor(float)).
C14_Witness ==
    /\ origin = "text"
    /\ step = "parsed"
    /\ p_src.str = <<" ", " ", "s", "e", "q", "(", " ", "f", "l", "o", "a", "t", " ", ")", " ",
            " ">>
    /\ parsed.ok
    /\ parsed.type = SeqType(TensorType("FLOAT"))

(***************************************************************************)
(* Failing parses.                                                         *)
(***************************************************************************)
\* C15: when FromString fails, the descriptor it was given holds nothing
\* built from the text read before the failure: no variant, field or child.
C15_FailedParseLeavesNothing ==
    origin = "text" /\ step = "parsed" /\ ~parsed.ok => parsed.type = NotSet

\* C16: a text the grammar does not derive makes FromString fail with an
\* exception at the call (std::invalid_argument, or the std::length_error
\* of a name or key that is not there); none is accepted as a descriptor.
C16_MalformedTextRejected ==
    origin = "text" /\ step = "parsed" /\ p_src.str \in MalformedTexts => ~parsed.ok

(***************************************************************************)
(* Serializing what was parsed.                                            *)
(***************************************************************************)
\* FromString(p_src) succeeded and ToString of its result is p_src again.
LeftInverse ==
    /\ step = "parsed" => parsed.ok
    /\ step = "reserialized" => again.ok /\ again.str = p_src.str

\* Strings ToString produces: those of the tensors of every defined kind
\* and of the example descriptors.
CanonicalStrings ==
    {ToString(t).str : t \in {u \in Leaves(DataTypes) \cup ExampleTypes : WellFormed(u)}}

\* C17 (as stated): for every string s that ToString produced, with no
\* white space in it, FromString(s) succeeds and ToString of the result is
\* s byte for byte.
C17_LeftInverseAnyName ==
    (origin = "descriptor" /\ p_src.ok /\ \A i \in 1..Len(p_src.str) : ~IsSpace(p_src.str[i]))
        => LeftInverse

\* C17 (amended): for every string s that ToString produced from a
\* descriptor whose kinds are defined and whose entry names hold no ':',
\* ',', '(' or ')' and no white space at either end, FromString(s) succeeds
\* and ToString of the result is s byte for byte, the entries in stored
\* order, none sorted, merged or dropped.
C17_LeftInverse ==
    ((origin = "descriptor" /\ WellFormed(p_type) /\ p_src.ok)
        \/ (origin = "text" /\ p_src.str \in CanonicalStrings))
        => LeftInverse

\* record(b:float,a:float), its fields not in sorted order, has been
\* serialized, parsed and serialized again.
C17_Witness ==
    /\ origin = "descriptor"
    /\ p_type = RecordType(<<ValueInfo(<<"b">>, TensorType("FLOAT")),
                             ValueInfo(<<"a">>, TensorType("FLOAT"))>>)
    /\ step = "reserialized"
    /\ again.str = <<"r", "e", "c", "o", "r", "d", "(", "b", ":", "f", "l", "o", "a", "t", ",",
            "a", ":", "f", "l", "o", "a", "t", ")">>

(***************************************************************************)
(* The entries of a parsed record or union.                                *)
(***************************************************************************)
\* Every record and union of t, at any depth, has an entry.
RECURSIVE EntriesNonEmpty(_)
EntriesNonEmpty(t) ==
    CASE t.value_case = "kSeqType" -> EntriesNonEmpty(t.seq_elem_type)
      [] t.value_case = "kMapType" -> EntriesNonEmpty(t.value_type)
      [] t.value_case \in {"kRecordType", "kUnionType"} ->
            /\ Len(Entries(t)) >= 1
            /\ \A i \in 1..Len(Entries(t)) : EntriesNonEmpty(Entries(t)[i].type)
      [] OTHER -> TRUE

\* C18: SplitRecords pushes at least one segment for every payload, the
\* empty one included, and every record or union that a successful
\* FromString built has at least one field or choice.
C18_AtLeastOneSegment ==
    /\ step = "split" => Len(fields) >= 1
    /\ origin = "text" /\ step = "parsed" /\ parsed.ok => EntriesNonEmpty(parsed.type)

\* The empty payload of "record()" has been split into one empty segment.
C18_Witness ==
    /\ step = "split"
    /\ p_src.str = <<"r", "e", "c", "o", "r", "d", "(", ")">>
    /\ fields = << <<>> >>

(***************************************************************************)
(* Name and type of a segment.                                             *)
(***************************************************************************)
\* The positions of ':' in a text.
Colons(text) == {i \in 1..Len(text) : text[i] = ":"}

FirstColon(text) == CHOOSE i \in Colons(text) : \A j \in Colons(text) : i <= j

\* A text without the white space at its ends.
TrimText(text) ==
    LET solid == {i \in 1..Len(text) : ~IsSpace(text[i])}
        first == CHOOSE i \in solid : \A j \in solid : i <= j
        last == CHOOSE i \in solid : \A j \in solid : j <= i
    IN  IF solid = {} THEN <<>> ELSE SubSeq(text, first, last)

\* The segments of the record or union expression text.
SegmentsOf(text) == CapturedTexts(SplitRecords(Payload(text, EntriesTag(text))))

\* C19: the name of a segment's field is the text before the segment's
\* first ':' (white space at its ends dropped, as the scanner does with every
\* range) and its type is the parse of everything after that ':', so that
\* the ':' of nested fields stay in the type's text.
C19_SplitAtFirstColon ==
    origin = "text" /\ step = "parsed" /\ EntriesTag(p_src.str) # <<>> =>
        /\ parsed.ok => Len(Entries(parsed.type)) = Len(SegmentsOf(p_src.str))
        /\ \A i \in 1..Len(Entries(parsed.type)) :
              LET seg == SegmentsOf(p_src.str)[i]
                  entry == Entries(parsed.type)[i]
              IN  Colons(seg) # {} =>
                    /\ entry.name = TrimText(SubSeq(seg, 1, FirstColon(seg) - 1))
                    /\ entry.type = FromString(SubSeq(seg, FirstColon(seg) + 1, Len(seg))).type

\* "record(a:record(b:float,c:float),d:float)" has been parsed: the field a
\* is the record of b and c.
C19_Witness ==
    /\ origin = "text"
    /\ step = "parsed"
    /\ p_src.str = <<"r", "e", "c", "o", "r", "d", "(", "a", ":", "r", "e", "c", "o", "r", "d",
            "(", "b", ":", "f", "l", "o", "a", "t", ",", "c", ":", "f", "l", "o", "a", "t", ")",
            ",", "d", ":", "f", "l", "o", "a", "t", ")">>
    /\ parsed.ok
    /\ parsed.type.field[1] =
          ValueInfo(<<"a">>, RecordType(<<ValueInfo(<<"b">>, TensorType("FLOAT")),
                                      ValueInfo(<<"c">>, TensorType("FLOAT"))>>))

(***************************************************************************)
(* ParensWhitespaceStrip.                                                  *)
(***************************************************************************)
\* White space with at most one paren among it.
SpaceAndOne(text, paren) ==
    /\ \A i \in 1..Len(text) : IsSpace(text[i]) \/ text[i] = paren
    /\ Cardinality({i \in 1..Len(text) : text[i] = paren}) <= 1

\* inner is text without a left part made of white space and at most one
\* "(" and a right part made of white space and at most one ")"; the "("
\* and the ")" are gone when text, trimmed, starts or ends with them.
Unwrapped(text, inner) ==
    \E i \in 1..(Len(text) + 1) : \E j \in (i - 1)..Len(text) :
        /\ inner = SubSeq(text, i, j)
        /\ SpaceAndOne(SubSeq(text, 1, i - 1), "(")
        /\ SpaceAndOne(SubSeq(text, j + 1, Len(text)), ")")
        /\ TrimText(text) # <<>> /\ Head(TrimText(text)) = "(" =>
              \E k \in 1..(i - 1) : text[k] = "("
        /\ TrimText(text) # <<>> /\ TrimText(text)[Len(TrimText(text))] = ")" =>
              \E k \in (j + 1)..Len(text) : text[k] = ")"

\* C20: ParensWhitespaceStrip removes at most one leading "(" and at most
\* one trailing ")" with the white space around them, keeps the inner
\* parentheses ("( (x) )" becomes "(x)"), and leaves a range with no white
\* space at either end.
C20_ParensWhitespaceStrip ==
    origin = "window" /\ step = "unwrapped" =>
        /\ Unwrapped(p_src.str, window)
        /\ window = TrimText(window)
        /\ p_src.str = <<"(", " ", "(", "x", ")", " ", ")">> => window = <<"(", "x", ")">>

\* "( (x) )" has been unwrapped to "(x)".
C20_Witness ==
    /\ origin = "window"
    /\ step = "unwrapped"
    /\ p_src.str = <<"(", " ", "(", "x", ")", " ", ")">>
    /\ window = <<"(", "x", ")">>

(***************************************************************************)
(* Strips that cannot be applied.                                          *)
(***************************************************************************)
\* The characters r spans.
WindowText(r) == Bytes(r.buf, r.m_data, r.m_size)

HasPrefix(text, lit) == Len(text) >= Len(lit) /\ SubSeq(text, 1, Len(lit)) = lit

HasSuffix(text, lit) ==
    Len(text) >= Len(lit) /\ SubSeq(text, Len(text) - Len(lit) + 1, Len(text)) = lit

\* The call made cannot be applied to the range it was made on.
CannotStrip ==
    \/ call.arg = "size_t" /\ call.count > before.m_size
    \/ call.arg = "StringRange" /\ call.op = "LStrip"
          /\ ~HasPrefix(WindowText(before), call.lit)
    \/ call.arg = "StringRange" /\ call.op = "RStrip"
          /\ ~HasSuffix(WindowText(before), call.lit)

\* C21: LStrip(count) and RStrip(count) with count greater than the size of
\* the range, and LStrip(literal) and RStrip(literal) on a range that does
\* not start or end with the literal, return false and leave the start and
\* the size of the range as they were, on every range, the empty one
\* included.
C21_StripNoOp ==
    step = "stripped" /\ CannotStrip =>
        /\ ~call.ok
        /\ range.m_data = before.m_data
        /\ range.m_size = before.m_size

\* LStrip(1) has been called on an empty range and has returned false.
C21_Witness ==
    /\ step = "stripped"
    /\ call.arg = "size_t" /\ call.op = "LStrip" /\ call.count = 1
    /\ before.m_size = 0
    /\ ~call.ok
    /\ range = before

(***************************************************************************)
(* Termination of the parser.                                              *)
(***************************************************************************)
\* Every string passed to a recursive call of FromString, at any depth
\* below the call on text, is shorter than the string of the call that
\* passes it.
RECURSIVE ChildrenShorter(_)
ChildrenShorter(text) ==
    \A child \in Children(text) : Len(child) < Len(text) /\ ChildrenShorter(child)

\* An iteration of the loop of SplitRecords removes a byte or more from the
\* front of p_src.
IterationStrips ==
    step = "splitting" /\ step' = "splitting" =>
        /\ range'.m_size < range.m_size
        /\ range'.m_data > range.m_data
        /\ range'.m_data + range'.m_size = range.m_data + range.m_size

\* C22: parsing terminates on every text: each iteration of the loop of
\* SplitRecords removes at least one byte from p_src, the loop is left with
\* p_src empty, and every recursive call of FromString is made on a string
\* strictly shorter than its caller's.
C22_ParsingTerminates ==
    /\ [][IterationStrips]_vars
    /\ [](step = "split" /\ p_records # <<>> => range.m_size = 0)
    /\ [](origin = "text" /\ step = "parsed" => ChildrenShorter(p_src.str))
    /\ (step = "splitting" ~> step = "split")

\* The loop of SplitRecords has run to its end on the payload of
\* record(a:record(b:float,c:float),d:float), a text with a nested call two
\* levels down.
C22_Witness ==
    /\ step = "split"
    /\ origin = "text"
    /\ Len(p_records) = 2
    /\ range.m_size = 0
    /\ \E child \in Children(p_src.str) : Children(child) # {}

(***************************************************************************)
(* Interning a text and interning the descriptor it parses to.             *)
(***************************************************************************)
\* The calls of ToType(const TypeProto&) made by a caller, not from inside
\* ToType(const std::string&).
DescriptorCalls == {y \in internedTypes : \A x \in internedTexts : x.id # y.id}

\* C23: ToType(text) returns the handle ToType(FromString(text)) returns:
\* the key is the string ToString gives the parsed descriptor, a call of
\* ToType with that descriptor returns the same handle, and so does a call
\* with any other text that parses to that descriptor (calls following one
\* another).
C23_TextInternsParsedDescriptor ==
    \A x \in internedTexts :
        LET type == FromString(x.text).type
        IN  /\ x.h \in MapFind(registry, ToString(type).str)
            /\ \A y \in DescriptorCalls : y.p_type = type => y.h = x.h
            /\ \A z \in internedTexts : FromString(z.text).type = type => z.h = x.h

\* "seq( float )", the descriptor seq(tensor(FLOAT)) and "seq(float)" have
\* been interned, in this order, and share one handle.
C23_Witness ==
    \E x, z \in internedTexts, y \in DescriptorCalls :
        /\ x.id < y.id /\ y.id < z.id
        /\ x.text = <<"s", "e", "q", "(", " ">> \o float \o <<" ", ")">>
        /\ y.p_type = SeqType(TensorType("FLOAT"))
        /\ z.text = <<"s", "e", "q", "(">> \o float \o <<")">>
        /\ x.h = y.h /\ y.h = z.h

(***************************************************************************)
(* Calls of ToType that fail.                                              *)
(***************************************************************************)
\* Thread t takes a step of ToType that comes before the first access to the
\* map: it enters the call, parses the text or serializes the descriptor.
\* A call that fails is made of such steps only: the exception of
\* FromString or of ToString leaves it.
StepBeforeMap(t) ==
    \/ pc[t] = "idle" /\ pc'[t] \in {"FromString", "ToString"}
    \/ pc[t] = "FromString" /\ pc'[t] \in {"ToString", "idle"}
    \/ pc[t] = "ToString" /\ pc'[t] \in {"find", "idle"}

\* C24: a call of ToType that fails, ToType(text) because the text does not
\* parse or ToType(descriptor) because ToString throws, leaves the registry
\* as it was: no step of the call up to the exception adds a key or changes
\* a stored descriptor.
C24_FailedInternKeepsRegistry ==
    [][\A t \in Threads : StepBeforeMap(t) => registry' = registry]_vars

\* One call has interned a descriptor and the next call of ToType has
\* failed: nothing was returned for it and the registry holds the one entry.
C24_Witness ==
    /\ Quiet
    /\ calls = 2
    /\ resolved = {}
    /\ \E x \in internedTypes : internedTypes = {x} /\ x.id = 1
    /\ Len(registry) = 1
    /\ registry[1].second # NotSet

(***************************************************************************)
(* The descriptor stored under a key.                                      *)
(***************************************************************************)
\* A node whose descriptor has been assigned keeps its key and descriptor.
StoredKept ==
    \A i \in 1..Len(registry) :
        registry[i].second # NotSet =>
            /\ i <= Len(registry')
            /\ registry'[i] = registry[i]

\* C25: once a descriptor has been stored under a canonical string it never
\* changes: a later ToType of a descriptor with the same canonical string,
\* after the first call or interleaved with it, does not overwrite it.
C25_FirstWriterWins == [][StoredKept]_vars

(***************************************************************************)
(* The ranges built from what Find returns.                                *)
(***************************************************************************)
\* r lies inside the string it was made over.
InBuffer(r) == r.m_data + r.m_size <= Len(r.buf)

\* C26: the ranges of the parser never leave their buffer: when the payload
\* of a map holds no ',' or a field or choice holds no ':' ("record()"
\* included) FromString fails, and the value Find returns for "not found" is
\* never the length of a range.
C26_WindowStaysInBuffer ==
    /\ origin = "text" /\ step = "parsed"
          /\ (\E f \in FindCalls(p_src.str) : Find(f.r, f.p_ch) = NPOS)
          => ~parsed.ok
    /\ step = "located" => InBuffer(range)

====
